---------------------------- MODULE Spec2Model ----------------------------
(***************************************************************************)
(* Model of backend/generators/jm2api.py: the Jm2ApiGenerator image        *)
(* adapter and the retry_on_error decorator that wraps generate_image.     *)
(*                                                                         *)
(* Strings that the code only passes along (sizes, model names, image      *)
(* URLs, image bytes) are TLA+ strings.  The base URL, which the code      *)
(* edits character by character, is a sequence of one-character strings.   *)
(* Time is counted in ticks, Unit ticks to the second.                     *)
(***************************************************************************)
EXTENDS Integers, Sequences, FiniteSets, TLC

VARIABLES
    config,      \* the dict handed to __init__ (never written afterwards)
    self,        \* the generator's fields: api_key, base_url, model, default_size, quality, style
    callers,     \* the threads that invoke generate_image on the generator
    server,      \* what the remote API and the image host may answer
    args,        \* args[c]: the arguments of caller c's generate_image call
    pc,          \* pc[c]: where caller c's call stands
    attempt,     \* attempt[c]: the wrapper's loop variable
    last_error,  \* last_error[c]: the wrapper's last_error
    caught,      \* caught[c]: the exceptions the wrapper's except clause caught, in order
    tries,       \* tries[c]: how many times the wrapper has called the wrapped function
    delay,       \* delay[c]: the wrapper's delay, in ticks, while it sleeps
    payload,     \* payload[c]: the JSON body of the POST
    api_url,     \* api_url[c]: the URL of the POST
    response,    \* response[c]: the POST's response in generate_image
    image_url,   \* image_url[c]: the URL handed to _download_image
    download,    \* download[c]: the GET's response in _download_image
    result,      \* result[c]: what the call returned or raised to its caller
    posts,       \* posts[c]: HTTP POSTs issued by caller c's call so far
    gets,        \* gets[c]: HTTP GETs issued by caller c's call so far
    sleeps       \* sleeps[c]: time.sleep calls made by caller c's call so far

vars == <<config, self, callers, server, args, pc, attempt, last_error, caught, tries,
          delay, payload, api_url, response, image_url, download, result, posts, gets,
          sleeps>>

---------------------------------------------------------------------------
(* Bounds of the model *)

\* ticks per second: random.uniform(0, 1) is drawn from 0 .. Unit-1 ticks
Unit == 2
\* longest configured base_url, in characters
MaxUrlLen == 4

---------------------------------------------------------------------------
(* Program constants *)

max_retries == 3
base_delay == 2

AllCallers == {1, 2}

None == "<None>"

\* "/v1/images/generations"
ApiPath == <<"/", "v", "1", "/", "i", "m", "a", "g", "e", "s", "/",
             "g", "e", "n", "e", "r", "a", "t", "i", "o", "n", "s">>

\* 'https://api.openai.com', the default of config.get('base_url', ...)
DefaultBaseUrl == <<"h", "t", "t", "p", "s", ":", "/", "/", "a", "p", "i", ".",
                    "o", "p", "e", "n", "a", "i", ".", "c", "o", "m">>

---------------------------------------------------------------------------
(* Strings as sequences of characters *)

RECURSIVE rstrip(_, _)
\* str.rstrip(chars): drops every trailing character that is in chars
rstrip(s, chars) ==
    IF s = <<>> THEN s
    ELSE IF s[Len(s)] \in chars
         THEN rstrip(SubSeq(s, 1, Len(s) - 1), chars)
         ELSE s

\* the set of characters of a Python string literal
CharsOf(lit) == {lit[i] : i \in 1..Len(lit)}

EndsWith(s, suffix) ==
    /\ Len(s) >= Len(suffix)
    /\ SubSeq(s, Len(s) - Len(suffix) + 1, Len(s)) = suffix

DropLast(s, n) == SubSeq(s, 1, Len(s) - n)

---------------------------------------------------------------------------
(* Errors *)

Error(type, msg, status) == [type |-> type, msg |-> msg, status |-> status]

NoError == Error("None", "", 0)

MsgNoKey      == "OpenAI Image API Key not configured"
MsgAuth       == "API Key authentication failed"
MsgRate       == "API quota or rate limit"
MsgProvider   == "OpenAI Image API request failed (status: N)"
MsgExtraction == "image data extraction failed: no url data"
MsgDlHttp     == "download failed: download failed: HTTP N"
MsgDlTimeout  == "download timed out, please retry"
MsgDlOther    == "download failed: connection error"

\* validate_config's ValueError
ConfigurationError == Error("ValueError", MsgNoKey, 0)

\* StatusError without the 429 branch
StatusErrorNo429(status_code) ==
    IF status_code = 401 THEN Error("Exception", MsgAuth, 0)
    ELSE Error("Exception", MsgProvider, status_code)

\* the exception generate_image raises for a POST response that is not 200
StatusError(status_code) ==
    IF status_code = 401 THEN Error("Exception", MsgAuth, 0)
    ELSE IF status_code = 429 THEN Error("Exception", MsgRate, 0)
    ELSE Error("Exception", MsgProvider, status_code)

ExtractionError == Error("Exception", MsgExtraction, 0)

\* requests.post raised (connection error, timeout): it propagates as it is
PostException == Error("requests.RequestException", "POST failed", 0)

\* response.json() raised on a body that is not JSON: it propagates as it is
JsonException == Error("JSONDecodeError", "body is not JSON", 0)

---------------------------------------------------------------------------
(* Configuration and construction *)

\* dict.get(key, default)
Get(d, key, default) == IF key \in d.keys THEN d[key] ELSE default

\* Falsy as "is None": an empty key passes
FalsyNoneOnly(v) == v = None

\* Python truthiness of an optional string: None and '' are falsy
Falsy(v) == v \in {None, ""}

\* ImageGeneratorBase.__init__: keeps the configured API key
BaseApiKey(cfg) == Get(cfg, "api_key", None)

\* base_url as __init__ normalizes it
NormalizeBaseUrl(raw) == rstrip(rstrip(raw, CharsOf(<<"/">>)), CharsOf(<<"/", "v", "1">>))

\* Jm2ApiGenerator.__init__
New(cfg) ==
    [api_key      |-> BaseApiKey(cfg),
     base_url     |-> NormalizeBaseUrl(Get(cfg, "base_url", DefaultBaseUrl)),
     model        |-> Get(cfg, "model", "dall-e-3"),
     default_size |-> Get(cfg, "default_size", "1024x1024"),
     quality      |-> Get(cfg, "quality", "standard"),
     style        |-> Get(cfg, "style", "vivid")]

Config(keys, api_key, base_url, model, default_size) ==
    [keys |-> keys, api_key |-> api_key, base_url |-> base_url, model |-> model,
     default_size |-> default_size, quality |-> "hd", style |-> "natural"]

---------------------------------------------------------------------------
(* The request *)

Args(prompt, aspect_ratio, size, model, quality, style) ==
    [prompt |-> prompt, aspect_ratio |-> aspect_ratio, size |-> size,
     model |-> model, quality |-> quality, style |-> style]

\* an argument left at None falls back to the generator's field
OrDefault(v, default) == IF v = None THEN default ELSE v

\* ResolveSize with the aspect ratio looked at before the size passed
ResolveSizeRatioFirst(size, aspect_ratio, default_size) ==
    IF aspect_ratio = "9:16" THEN "1024x1792"
    ELSE IF aspect_ratio = "16:9" THEN "1792x1024"
    ELSE IF size = None THEN default_size
    ELSE size

\* the size sent: the one passed, else the one the aspect ratio maps to
ResolveSize(size, aspect_ratio, default_size) ==
    IF size = None
    THEN IF aspect_ratio = "9:16" THEN "1024x1792"
         ELSE IF aspect_ratio = "16:9" THEN "1792x1024"
         ELSE default_size
    ELSE size

Payload(s, a) ==
    [model   |-> OrDefault(a.model, s.model),
     prompt  |-> a.prompt,
     n       |-> 1,
     size    |-> ResolveSize(a.size, a.aspect_ratio, s.default_size),
     quality |-> OrDefault(a.quality, s.quality),
     style   |-> OrDefault(a.style, s.style)]

NoPayload == [model |-> None, prompt |-> None, n |-> 0, size |-> None,
              quality |-> None, style |-> None]

ApiUrl(s) == s.base_url \o ApiPath

---------------------------------------------------------------------------
(* What the network answers *)

Item(keys, url) == [keys |-> keys, url |-> url]
UrlItem(url) == Item({"url"}, url)
B64Item == Item({"b64_json"}, None)

\* a JSON object: whether it has a "data" key and what the key holds
Json(data_kind, items) == [json |-> TRUE, data_kind |-> data_kind, items |-> items]
NotJson == [json |-> FALSE, data_kind |-> "missing", items |-> <<>>]

Reply(kind, status_code, body, content) ==
    [kind |-> kind, status_code |-> status_code, body |-> body, content |-> content]

NoReply == Reply("none", 0, NotJson, "")

SuccessBodies ==
    {Json("list", <<UrlItem("u1")>>), Json("list", <<UrlItem("u2"), UrlItem("u1")>>)}

NoUrlBodies ==
    {Json("missing", <<>>), Json("null", <<>>), Json("list", <<>>),
     Json("list", <<B64Item>>), Json("list", <<B64Item, UrlItem("u1")>>)}

AllPostReplies ==
    {Reply("response", 200, b, "") : b \in SuccessBodies \cup NoUrlBodies \cup {NotJson}}
    \cup {Reply("response", sc, Json("list", <<UrlItem("u1")>>), "") : sc \in {401, 429, 500, 201}}
    \cup {Reply("exception", 0, NotJson, "")}

AllGetReplies ==
    {Reply("response", 200, NotJson, img) : img \in {"img1", "img2"}}
    \cup {Reply("response", 404, NotJson, "not found"),
          Reply("timeout", 0, NotJson, ""),
          Reply("exception", 0, NotJson, "")}

\* result.get('data') or []
DataOrEmpty(body) == IF body.data_kind = "list" THEN body.items ELSE <<>>

\* HasUrl looking for a url in any element of data
HasUrlAnywhere(body) ==
    LET data == DataOrEmpty(body)
    IN  \E i \in 1..Len(data) : "url" \in data[i].keys

\* whether the success body yields a url, as lines 164-166 decide it
HasUrl(body) ==
    LET data == DataOrEmpty(body)
    IN  Len(data) > 0 /\ "url" \in data[1].keys

\* the url of data[-1]
LastUrl(body) == DataOrEmpty(body)[Len(DataOrEmpty(body))].url

\* item["url"] of data[0]
FirstUrl(body) == DataOrEmpty(body)[1].url

\* the exception _download_image raises for a GET that did not return 200
DownloadError(reply) ==
    IF reply.kind = "timeout" THEN Error("Exception", MsgDlTimeout, 0)
    ELSE IF reply.kind = "exception" THEN Error("Exception", MsgDlOther, 0)
    ELSE Error("Exception", MsgDlHttp, reply.status_code)

---------------------------------------------------------------------------
(* The retry wrapper *)

\* random.uniform(0, 1), in ticks
Jitter == 0 .. (Unit - 1)

RECURSIVE Pow2(_)
Pow2(k) == IF k = 0 THEN 1 ELSE 2 * Pow2(k - 1)

\* Backoff with 2 * attempt for 2 ** attempt
BackoffTimes(k, jitter) == base_delay * (2 * k) * Unit + jitter

\* delay = base_delay * (2 ** attempt) + random.uniform(0, 1), in ticks
Backoff(k, jitter) == base_delay * Pow2(k) * Unit + jitter

\* if attempt < max_retries - 1
ShouldRetry(k) == k < max_retries - 1

\* LoopContinues with range(max_retries + 1)
LoopContinuesOneMore(k) == k + 1 < max_retries + 1

\* for attempt in range(max_retries): whether an iteration follows iteration k
LoopContinues(k) == k + 1 < max_retries

\* Remember keeping the first exception caught
RememberFirst(old, err) == IF old = NoError THEN err ELSE old

\* last_error = e
Remember(old, err) == err

NoResult == [kind |-> "none", value |-> "", error |-> NoError]
Returned(bytes) == [kind |-> "returned", value |-> bytes, error |-> NoError]
Raised(err) == [kind |-> "raised", value |-> "", error |-> err]

---------------------------------------------------------------------------
(* Initial states: a generator just constructed, no call made yet *)

Alphabet == {"h", "1", "v", "/"}

\* every string over Alphabet of at most n characters
Strings(n) == UNION {[1..k -> Alphabet] : k \in 0..n}

\* every configured base_url of at most n characters: a host, then any path
BaseUrls(n) == {<<"h">> \o rest : rest \in Strings(n - 1)}

HostUrl == <<"h">>

ApiKeys == {None, "", "sk-key"}

FewPostReplies ==
    {Reply("response", 200, Json("list", <<UrlItem("u1")>>), ""),
     Reply("response", 200, Json("list", <<>>), ""),
     Reply("response", 401, Json("list", <<UrlItem("u1")>>), "")}

FewGetReplies ==
    {Reply("response", 200, NotJson, "img1"), Reply("response", 404, NotJson, "not found")}

AllServer == [post |-> AllPostReplies, get |-> AllGetReplies]
FewServer == [post |-> FewPostReplies, get |-> FewGetReplies]

PlainArgs == Args("a cat", None, None, None, None, None)

AllArgs ==
    {Args("a cat", ar, sz, md, q, None) :
        ar \in {None, "1:1", "9:16", "16:9", "4:3"},
        sz \in {None, "", "512x512", "1792x1024"},
        md \in {None, "gpt-image"},
        q  \in {None, "hd"}}

FewArgs ==
    {PlainArgs, Args("a dog", "9:16", None, "gpt-image", None, "natural")}

InitWith(cfgs, callerSet, srv, argSet) ==
    /\ config \in cfgs
    /\ self = New(config)
    /\ callers = callerSet
    /\ server = srv
    /\ args \in [AllCallers -> argSet]
    /\ \A c \in AllCallers \ callerSet : args[c] = PlainArgs
    /\ pc = [c \in AllCallers |-> "idle"]
    /\ attempt = [c \in AllCallers |-> 0]
    /\ last_error = [c \in AllCallers |-> NoError]
    /\ caught = [c \in AllCallers |-> <<>>]
    /\ tries = [c \in AllCallers |-> 0]
    /\ delay = [c \in AllCallers |-> 0]
    /\ payload = [c \in AllCallers |-> NoPayload]
    /\ api_url = [c \in AllCallers |-> <<>>]
    /\ response = [c \in AllCallers |-> NoReply]
    /\ image_url = [c \in AllCallers |-> None]
    /\ download = [c \in AllCallers |-> NoReply]
    /\ result = [c \in AllCallers |-> NoResult]
    /\ posts = [c \in AllCallers |-> 0]
    /\ gets = [c \in AllCallers |-> 0]
    /\ sleeps = [c \in AllCallers |-> 0]

AllKeys == {"api_key", "base_url", "model", "default_size", "quality", "style"}

\* one caller, every answer of the network, a few configurations and requests
Init ==
    InitWith({Config(ks, k, u, "seedream", "512x512") :
                 ks \in {AllKeys, {"api_key", "base_url"}},
                 k \in ApiKeys,
                 u \in {HostUrl, <<"h", "/", "v", "1">>}},
             {1}, AllServer, FewArgs)

\* one caller, every request and default, a few answers of the network
InitInputs ==
    InitWith({Config(ks, k, HostUrl, "seedream", ds) :
                 ks \in {AllKeys, {"api_key"}, {"base_url", "default_size"}},
                 k \in ApiKeys,
                 ds \in {"512x512", "1792x1024"}},
             {1}, FewServer, AllArgs)

\* one caller, every configured base_url of at most MaxUrlLen characters
InitUrl ==
    InitWith({Config(ks, "sk-key", u, "seedream", "512x512") :
                 ks \in {AllKeys},
                 u \in BaseUrls(MaxUrlLen)}
             \cup {Config({"api_key"}, "sk-key", <<>>, "seedream", "512x512")},
             {1}, FewServer, {PlainArgs})

\* two callers on one generator
InitConcurrent ==
    InitWith({Config(AllKeys, k, HostUrl, "seedream", "512x512") : k \in {"", "sk-key"}},
             {1, 2}, FewServer, FewArgs)

---------------------------------------------------------------------------
(* The steps of a call *)

Set(f, c, v) == [f EXCEPT ![c] = v]

\* generate_image is called: the wrapper starts its loop
Call(c) ==
    /\ pc[c] = "idle"
    /\ pc' = Set(pc, c, "attempt")
    /\ last_error' = Set(last_error, c, NoError)
    /\ attempt' = Set(attempt, c, 0)
    /\ UNCHANGED <<config, self, callers, server, args, caught, tries, delay, payload,
                   api_url, response, image_url, download, result, posts, gets, sleeps>>

\* the end of a failed iteration: the next iteration, or after the last one
\* raise last_error (err is the value of last_error then)
EndIteration(c, err) ==
    IF LoopContinues(attempt[c])
    THEN /\ attempt' = Set(attempt, c, attempt[c] + 1)
         /\ pc' = Set(pc, c, "attempt")
         /\ UNCHANGED result
    ELSE /\ pc' = Set(pc, c, "raised")
         /\ result' = Set(result, c, Raised(err))
         /\ UNCHANGED attempt

\* except Exception as e: remember it, then sleep if another attempt follows
Except(c, err) ==
    /\ caught' = Set(caught, c, Append(caught[c], err))
    /\ last_error' = Set(last_error, c, Remember(last_error[c], err))
    /\ IF ShouldRetry(attempt[c])
       THEN /\ \E jitter \in Jitter : delay' = Set(delay, c, Backoff(attempt[c], jitter))
            /\ sleeps' = Set(sleeps, c, sleeps[c] + 1)
            /\ pc' = Set(pc, c, "sleep")
            /\ UNCHANGED <<attempt, result>>
       ELSE /\ EndIteration(c, last_error'[c])
            /\ UNCHANGED <<delay, sleeps>>

\* Attempt storing the resolved model in self.model
AttemptStoringModel(c) ==
    /\ pc[c] = "attempt"
    /\ tries' = Set(tries, c, tries[c] + 1)
    /\ response' = Set(response, c, NoReply)
    /\ download' = Set(download, c, NoReply)
    /\ image_url' = Set(image_url, c, None)
    /\ IF Falsy(self.api_key)
       THEN /\ Except(c, ConfigurationError)
            /\ payload' = Set(payload, c, NoPayload)
            /\ api_url' = Set(api_url, c, <<>>)
            /\ UNCHANGED <<posts, self>>
       ELSE /\ self' = [self EXCEPT !.model = OrDefault(args[c].model, self.model)]
            /\ payload' = Set(payload, c, Payload(self', args[c]))
            /\ api_url' = Set(api_url, c, ApiUrl(self))
            /\ posts' = Set(posts, c, posts[c] + 1)
            /\ pc' = Set(pc, c, "post")
            /\ UNCHANGED <<attempt, last_error, caught, delay, sleeps, result>>
    /\ UNCHANGED <<config, callers, server, args, gets>>

\* one attempt, up to the POST: validate_config, the payload, requests.post
Attempt(c) ==
    /\ pc[c] = "attempt"
    /\ tries' = Set(tries, c, tries[c] + 1)
    /\ response' = Set(response, c, NoReply)
    /\ download' = Set(download, c, NoReply)
    /\ image_url' = Set(image_url, c, None)
    /\ IF Falsy(self.api_key)
       THEN /\ Except(c, ConfigurationError)
            /\ payload' = Set(payload, c, NoPayload)
            /\ api_url' = Set(api_url, c, <<>>)
            /\ UNCHANGED posts
       ELSE /\ payload' = Set(payload, c, Payload(self, args[c]))
            /\ api_url' = Set(api_url, c, ApiUrl(self))
            /\ posts' = Set(posts, c, posts[c] + 1)
            /\ pc' = Set(pc, c, "post")
            /\ UNCHANGED <<attempt, last_error, caught, delay, sleeps, result>>
    /\ UNCHANGED <<config, self, callers, server, args, gets>>

\* requests.post answers: the status, the body, and the GET if there is a url
PostDone(c) ==
    /\ pc[c] = "post"
    /\ \E reply \in server.post :
        /\ response' = Set(response, c, reply)
        /\ IF reply.kind = "exception"
           THEN Except(c, PostException) /\ UNCHANGED <<image_url, gets>>
           ELSE IF reply.status_code # 200
           THEN Except(c, StatusError(reply.status_code)) /\ UNCHANGED <<image_url, gets>>
           ELSE IF ~reply.body.json
           THEN Except(c, JsonException) /\ UNCHANGED <<image_url, gets>>
           ELSE IF HasUrl(reply.body)
           THEN /\ image_url' = Set(image_url, c, FirstUrl(reply.body))
                /\ gets' = Set(gets, c, gets[c] + 1)
                /\ pc' = Set(pc, c, "get")
                /\ UNCHANGED <<attempt, last_error, caught, delay, sleeps, result>>
           ELSE Except(c, ExtractionError) /\ UNCHANGED <<image_url, gets>>
    /\ UNCHANGED <<config, self, callers, server, args, tries, payload, api_url, download,
                   posts>>

\* requests.get answers in _download_image: the bytes, or a download error
GetDone(c) ==
    /\ pc[c] = "get"
    /\ \E reply \in server.get :
        /\ download' = Set(download, c, reply)
        /\ IF reply.kind = "response" /\ reply.status_code = 200
           THEN /\ pc' = Set(pc, c, "returned")
                /\ result' = Set(result, c, Returned(reply.content))
                /\ UNCHANGED <<attempt, last_error, caught, delay, sleeps>>
           ELSE Except(c, DownloadError(reply))
    /\ UNCHANGED <<config, self, callers, server, args, tries, payload, api_url, response,
                   image_url, posts, gets>>

\* time.sleep(delay) returns: the loop's next attempt
Wake(c) ==
    /\ pc[c] = "sleep"
    /\ EndIteration(c, last_error[c])
    /\ UNCHANGED <<config, self, callers, server, args, last_error, caught, tries, delay,
                   payload, api_url, response, image_url, download, posts, gets, sleeps>>

Next ==
    \/ \E c \in callers : Call(c)
    \/ \E c \in callers : Attempt(c)
    \/ \E c \in callers : PostDone(c)
    \/ \E c \in callers : GetDone(c)
    \/ \E c \in callers : Wake(c)

Spec == Init /\ [][Next]_vars
SpecInputs == InitInputs /\ [][Next]_vars
SpecUrl == InitUrl /\ [][Next]_vars
SpecConcurrent == InitConcurrent /\ [][Next]_vars

---------------------------------------------------------------------------
(* Properties *)

\* an attempt of caller c ends in failure with this step
Fails(c) == Len(caught'[c]) = Len(caught[c]) + 1

\* the exception the wrapper caught last
LastCaught(c) == caught[c][Len(caught[c])]

\* C1: with an API key that is absent or empty, generate_image issues no POST
\* and no GET in any of its attempts, every attempt fails with the
\* ConfigurationError (validate_config's ValueError), the call never returns,
\* and that error is what the call raises.
C1_NoKeyNoNetwork ==
    self.api_key \in {None, ""} =>
        \A c \in callers :
            /\ posts[c] = 0 /\ gets[c] = 0
            /\ pc[c] \notin {"post", "get", "returned"}
            /\ \A i \in 1..Len(caught[c]) :
                   caught[c][i].type = "ValueError" /\ caught[c][i].msg = MsgNoKey
            /\ pc[c] = "raised" =>
                   /\ result[c].kind = "raised"
                   /\ result[c].error.type = "ValueError"
                   /\ result[c].error.msg = MsgNoKey

C1_Witness ==
    /\ self.api_key = ""
    /\ pc[1] = "raised"
    /\ tries[1] = 3
    /\ posts[1] = 0 /\ gets[1] = 0

\* C2: a POST answered 200 with a url in data[0] leads to a GET of exactly
\* data[0].url, and a GET answered 200 makes generate_image return exactly the
\* bytes of that answer; after the return the call does nothing more.
C2_ReturnsDownloadedBytes ==
    /\ [](\A c \in callers :
            pc[c] \in {"get", "returned"} =>
                /\ response[c].kind = "response" /\ response[c].status_code = 200
                /\ response[c].body.data_kind = "list"
                /\ image_url[c] = response[c].body.items[1].url)
    /\ [][\A c \in callers :
            /\ (pc[c] = "post" /\ pc'[c] # "post"
                /\ response'[c].kind = "response" /\ response'[c].status_code = 200
                /\ response'[c].body.json /\ response'[c].body.data_kind = "list"
                /\ Len(response'[c].body.items) > 0
                /\ "url" \in response'[c].body.items[1].keys)
               => (pc'[c] = "get" /\ gets'[c] = gets[c] + 1
                   /\ image_url'[c] = response'[c].body.items[1].url)
            /\ (pc[c] = "get" /\ pc'[c] # "get"
                /\ download'[c].kind = "response" /\ download'[c].status_code = 200)
               => (pc'[c] = "returned"
                   /\ result'[c].kind = "returned"
                   /\ result'[c].value = download'[c].content)
            /\ pc[c] = "returned"
               => (pc'[c] = "returned" /\ result'[c] = result[c] /\ tries'[c] = tries[c]
                   /\ posts'[c] = posts[c] /\ gets'[c] = gets[c]
                   /\ sleeps'[c] = sleeps[c])]_vars

C2_Witness ==
    /\ pc[1] = "returned"
    /\ response[1].body.items = <<UrlItem("u2"), UrlItem("u1")>>
    /\ image_url[1] = "u2"
    /\ result[1].value = "img2"
    /\ tries[1] = 2

\* C3: an attempt whose POST is answered with a status other than 200 fails
\* with the error of that status (401: authentication, 429: rate limit, any
\* other: provider error), issues no GET and extracts no url; and the error
\* caught tells the cases apart: each of the five kinds of message occurs
\* only for its own cause.
C3_StatusErrors ==
    /\ [][\A c \in callers :
            (pc[c] = "post" /\ pc'[c] # "post"
             /\ response'[c].kind = "response" /\ response'[c].status_code # 200)
            => /\ Fails(c)
               /\ gets'[c] = gets[c]
               /\ image_url'[c] = None
               /\ pc'[c] \in {"sleep", "raised"}
               /\ caught'[c][Len(caught'[c])].type = "Exception"
               /\ caught'[c][Len(caught'[c])].msg =
                     (IF response'[c].status_code = 401 THEN MsgAuth
                      ELSE IF response'[c].status_code = 429 THEN MsgRate
                      ELSE MsgProvider)]_vars
    /\ [](\A c \in callers :
            pc[c] \in {"sleep", "raised"} =>
                /\ LastCaught(c).msg = MsgAuth <=>
                       (response[c].kind = "response" /\ response[c].status_code = 401)
                /\ LastCaught(c).msg = MsgRate <=>
                       (response[c].kind = "response" /\ response[c].status_code = 429)
                /\ LastCaught(c).msg = MsgProvider <=>
                       (response[c].kind = "response"
                        /\ response[c].status_code \notin {200, 401, 429})
                /\ LastCaught(c).msg = MsgExtraction =>
                       (response[c].status_code = 200 /\ download[c].kind = "none")
                /\ LastCaught(c).msg \in {MsgDlHttp, MsgDlTimeout, MsgDlOther} <=>
                       download[c].kind # "none")

C3_Witness ==
    /\ pc[1] = "raised"
    /\ Len(caught[1]) = 3
    /\ caught[1][1].msg = MsgAuth
    /\ caught[1][2].msg = MsgRate
    /\ caught[1][3].msg = MsgProvider /\ caught[1][3].status = 500
    /\ gets[1] = 0

\* C4: an attempt whose POST is answered 200 with a body that yields no url
\* (no data key, data null, data an empty list, or data[0] without a url key)
\* fails with the ExtractionError and issues no GET.
C4_NoUrlNoDownload ==
    [][\A c \in callers :
         (pc[c] = "post" /\ pc'[c] # "post"
          /\ response'[c].kind = "response" /\ response'[c].status_code = 200
          /\ response'[c].body.json
          /\ \/ response'[c].body.data_kind \in {"missing", "null"}
             \/ response'[c].body.items = <<>>
             \/ "url" \notin response'[c].body.items[1].keys)
         => /\ Fails(c)
            /\ caught'[c][Len(caught'[c])].msg = MsgExtraction
            /\ gets'[c] = gets[c]
            /\ download'[c].kind = "none"
            /\ pc'[c] \in {"sleep", "raised"}]_vars

C4_Witness ==
    /\ pc[1] = "sleep"
    /\ response[1].body.items = <<B64Item, UrlItem("u1")>>
    /\ LastCaught(1).msg = MsgExtraction
    /\ gets[1] = 0

\* C5: the size of the POST payload is the size passed, whatever the aspect
\* ratio; with no size passed it is 1024x1792 for 9:16, 1792x1024 for 16:9 and
\* the configured default size for every other aspect ratio.
C5_SizeResolution ==
    \A c \in callers :
        pc[c] \in {"post", "get", "returned"} =>
            payload[c].size =
                (IF args[c].size # None THEN args[c].size
                 ELSE IF args[c].aspect_ratio = "9:16" THEN "1024x1792"
                 ELSE IF args[c].aspect_ratio = "16:9" THEN "1792x1024"
                 ELSE IF "default_size" \in config.keys THEN config.default_size
                 ELSE "1024x1024")

C5_Witness ==
    /\ pc[1] = "post"
    /\ args[1].size = "512x512"
    /\ args[1].aspect_ratio = "9:16"
    /\ payload[1].size = "512x512"
    /\ self.default_size = "1792x1024"

\* C6: the wrapper calls the wrapped function until a call succeeds or 3 have
\* failed: a failed attempt is followed by a sleep exactly when fewer than 3
\* attempts have been made, whatever the error; the attempt after a sleep
\* starts again at validation; there is no 4th attempt and none after a
\* success.
C6_RetryPolicy ==
    /\ [](\A c \in callers :
            /\ tries[c] <= 3 /\ posts[c] <= tries[c] /\ gets[c] <= posts[c]
            /\ pc[c] = "sleep" => (tries[c] < 3 /\ Len(caught[c]) = tries[c])
            /\ pc[c] = "raised" => (tries[c] = 3 /\ Len(caught[c]) = 3)
            /\ pc[c] = "returned" => Len(caught[c]) = tries[c] - 1)
    /\ [][\A c \in callers :
            /\ Fails(c) => pc'[c] = (IF tries'[c] < 3 THEN "sleep" ELSE "raised")
            /\ (pc[c] = "sleep" /\ pc'[c] # "sleep")
               => (pc'[c] = "attempt" /\ tries'[c] = tries[c])
            /\ (pc[c] = "attempt" /\ pc'[c] # "attempt")
               => (tries'[c] = tries[c] + 1
                   /\ IF self.api_key \in {None, ""}
                      THEN Fails(c) /\ posts'[c] = posts[c]
                      ELSE pc'[c] = "post" /\ posts'[c] = posts[c] + 1)
            /\ pc[c] \in {"returned", "raised"}
               => (pc'[c] = pc[c] /\ tries'[c] = tries[c])]_vars

C6_Witness ==
    /\ pc[1] = "returned"
    /\ tries[1] = 3
    /\ Len(caught[1]) = 2
    /\ caught[1][1].msg = MsgExtraction
    /\ caught[1][2].msg = MsgDlTimeout

\* C7: when all 3 attempts fail, the call raises the exception caught from the
\* third attempt itself, with its type and message, whatever the first two
\* attempts raised.
C7_LastErrorPropagates ==
    \A c \in callers :
        pc[c] = "raised" =>
            /\ Len(caught[c]) = 3
            /\ result[c].kind = "raised"
            /\ result[c].error = caught[c][3]
            /\ response[c].kind = "response" /\ response[c].status_code = 401
                   => result[c].error.msg = MsgAuth
            /\ download[c].kind = "timeout" => result[c].error.msg = MsgDlTimeout

C7_Witness ==
    /\ pc[1] = "raised"
    /\ caught[1][1].msg = MsgAuth
    /\ caught[1][2].msg = MsgRate
    /\ caught[1][3].msg = MsgDlHttp
    /\ result[1].error = Error("Exception", MsgDlHttp, 404)

\* C8 as stated: every failed attempt k = 0, 1, 2 is followed by a sleep of
\* base_delay * 2^k seconds plus a jitter in [0,1), so a call whose 3 attempts
\* fail has slept about 2, 4 and 8 seconds.
C8_Original ==
    \A c \in callers :
        pc[c] = "raised" =>
            /\ sleeps[c] = 3
            /\ base_delay * 8 * Unit <= delay[c]
            /\ delay[c] < base_delay * 8 * Unit + Unit

\* C8 amended: the sleep after failed attempt k lasts base_delay * 2^k seconds
\* plus a jitter in [0,1), for k = 0 and k = 1 only: the third failed attempt
\* is followed by no sleep, so a call whose 3 attempts fail has slept twice,
\* about 2 and about 4 seconds.
C8_BackoffDelays ==
    \A c \in callers :
        /\ pc[c] = "sleep" =>
               /\ attempt[c] \in {0, 1}
               /\ sleeps[c] = attempt[c] + 1
               /\ (IF attempt[c] = 0 THEN 2 * Unit ELSE 4 * Unit) <= delay[c]
               /\ delay[c] < (IF attempt[c] = 0 THEN 2 * Unit ELSE 4 * Unit) + Unit
        /\ pc[c] = "raised" =>
               /\ sleeps[c] = 2
               /\ 4 * Unit <= delay[c] /\ delay[c] < 5 * Unit
        /\ sleeps[c] <= 2

C8_Witness ==
    /\ pc[1] = "raised"
    /\ sleeps[1] = 2
    /\ delay[1] = 4 * Unit + (Unit - 1)

\* what belongs to caller c's call
Loc(c) ==
    <<args[c], pc[c], attempt[c], last_error[c], caught[c], tries[c], delay[c],
      payload[c], api_url[c], response[c], image_url[c], download[c], result[c],
      posts[c], gets[c], sleeps[c]>>

\* C9: no step of a call writes the configuration or the generator's fields,
\* a step of one call leaves everything of the other call as it was, and with
\* two calls interleaved each call's payload is built from its own arguments
\* and the configuration, its result from the answers to its own requests.
C9_NoSharedMutableState ==
    /\ [][config' = config /\ self' = self]_vars
    /\ [][\A c, d \in callers : c # d => (Loc(c)' = Loc(c) \/ Loc(d)' = Loc(d))]_vars
    /\ [](\A c \in callers :
            /\ pc[c] \in {"post", "get", "returned"} =>
                   /\ payload[c].prompt = args[c].prompt
                   /\ payload[c].model =
                          (IF args[c].model # None THEN args[c].model
                           ELSE IF "model" \in config.keys THEN config.model
                           ELSE "dall-e-3")
                   /\ payload[c].style =
                          (IF args[c].style # None THEN args[c].style
                           ELSE IF "style" \in config.keys THEN config.style
                           ELSE "vivid")
            /\ attempt[c] = Len(caught[c]) - (IF pc[c] \in {"sleep", "raised"} THEN 1 ELSE 0)
            /\ last_error[c] = (IF caught[c] = <<>> THEN NoError ELSE LastCaught(c))
            /\ pc[c] = "returned" => result[c] = Returned(download[c].content)
            /\ pc[c] = "raised" => result[c] = Raised(LastCaught(c)))

C9_Witness ==
    /\ pc[1] = "get" /\ pc[2] = "post"
    /\ tries[1] = 2 /\ tries[2] = 3
    /\ args[1].model = None /\ args[2].model = "gpt-image"
    /\ payload[1].model = "seedream" /\ payload[2].model = "gpt-image"
    /\ last_error[1] = ExtractionError /\ last_error[2] = StatusError(401)

\* base_url with at most one trailing '/' and then a trailing '/v1' removed
IntendedBaseUrl(raw) ==
    LET a == IF EndsWith(raw, <<"/">>) THEN DropLast(raw, 1) ELSE raw
    IN  IF EndsWith(a, <<"/", "v", "1">>) THEN DropLast(a, 3) ELSE a

\* C10: the POST goes to base_url + "/v1/images/generations" where base_url is
\* the configured value less a trailing '/' and a trailing '/v1' segment, and
\* nothing else: no other character of the host or path is removed.
C10_RequestUrl ==
    \A c \in callers :
        pc[c] = "post" =>
            api_url[c] = IntendedBaseUrl(Get(config, "base_url", DefaultBaseUrl)) \o ApiPath
=============================================================================
